---- MODULE Spec2Model ----
(***************************************************************************)
(* Model of auto_invest: AssetFetcher (asset_fetcher.py) and               *)
(* AssetPurchaser (asset_purchaser.py).                                    *)
(*                                                                         *)
(* Time is counted in whole days, a date being its day number.  A text    *)
(* that the code takes apart is the sequence of its characters' code       *)
(* points.  An optional value (a Python attribute   *)
(* that may be missing, or an argument that may be None) is a sequence of  *)
(* length 0 or 1.  Each component has its own specification:               *)
(*   SpecFetch     constructor + getVideoIdsFromChannels                   *)
(*   SpecChannel   parseChannelFile                                        *)
(*   SpecExtract   extractRecommendationsFromTranscript                    *)
(*   SpecIdentify  identifyAssetsFromTranscript                            *)
(*   SpecPurchase  AssetPurchaser                                          *)
(***************************************************************************)
EXTENDS Integers, Sequences, FiniteSets, TLC

\* program constants, with the values of the modules' example runs
DeltaVideoDays == 5
ValidPurchaseDays == 4
UniversalPurchaseAmount == 1000
SentinelPrice == -1

\* the interpreter's defaults the code runs with: the longest digit string
\* int() converts, and the bytes a text file collects before it passes them
\* to its binary buffer
MaxStrDigits == 4300

ChunkSize == 8192

\* the size open() gives the binary buffer: the block size of the file's
\* device, any number of bytes above 1.  A write depends on the size only by
\* comparing it with the bytes of the rows passed down, which in the
\* constructions tried are a row of 4127 or 4128 bytes or one of 9024 or 9025:
\* the sizes 2..4126 act as 4096 does, 4128..9023 as 8192, and all from
\* 9025 on as 65536.
BlockSizes == {4096, 4127, 8192, 9024, 65536}

\* ------------------------------------------------------------------ bounds
SimRunDate == 10
MaxFeedLen == 3
PageSize == 2

\* the clock reading of datetime.utcnow(); differs from the injected date
UtcNow == SimRunDate + 1

ChannelIds == {"id1", "id2"}

\* publish times offered by the feed service.  With the injected run date
\* they lie just before the threshold, on it, and after the run date; with
\* the clock's date the last one lies on the run date itself.
PubTimes == {SimRunDate - DeltaVideoDays - 1, SimRunDate - DeltaVideoDays,
             SimRunDate + 1}

MaxRows == 3
MaxBody == 4
MaxTranscripts == 3
MaxStocks == 5
MaxRuns == 2

\* the days the local clock is tried ahead of and behind the UTC date
MaxClockOffset == 3

\* ------------------------------------------------------------- generic ops
RECURSIVE SeqsUpTo(_, _)
SeqsUpTo(S, n) ==
  IF n = 0 THEN {<<>>}
  ELSE LET shorter == SeqsUpTo(S, n - 1)
       IN shorter \cup {Append(s, x) : s \in {t \in shorter : Len(t) = n - 1}, x \in S}

Range(s) == {s[i] : i \in DOMAIN s}

NoRepeat(s) == \A i, j \in DOMAIN s : s[i] = s[j] => i = j

IsPrefix(s, t) == Len(s) <= Len(t) /\ SubSeq(t, 1, Len(s)) = s

Min(a, b) == IF a <= b THEN a ELSE b

\* ------------------------------------------------------------ text and sort
\* A string is the sequence of its characters' Unicode code points.
Tab == 9

LineFeed == 10

Blank == 32

Plus == 43

Comma == 44

Minus == 45

Underscore == 95

\* the characters str.strip() removes: those for which str.isspace() holds
Whitespace ==
  (9..13) \cup (28..32) \cup {133, 160, 5760} \cup (8192..8202)
    \cup {8232, 8233, 8239, 8287, 12288}

\* the characters int() skips around a number: the same, except the four
\* separators 28..31, which it rejects
IntWhitespace == Whitespace \ (28..31)

\* the digit zero of every decimal digit block (Unicode category Nd); the
\* digits 1..9 of a block follow its zero
DecimalZeros ==
  {48, 1632, 1776, 1984, 2406, 2534, 2662, 2790, 2918, 3046, 3174, 3302,
   3430, 3558, 3664, 3792, 3872, 4160, 4240, 6112, 6160, 6470, 6608, 6784,
   6800, 6992, 7088, 7232, 7248, 42528, 43216, 43264, 43472, 43504, 43600,
   44016, 65296, 66720, 68912, 69734, 69872, 69942, 70096, 70384, 70736,
   70864, 71248, 71360, 71472, 71904, 72016, 72784, 73040, 73120, 92768,
   92864, 93008, 120782, 120792, 120802, 120812, 120822, 123200, 123632,
   125264, 130032}

RECURSIVE StripLeft(_, _)
StripLeft(s, ws) ==
  IF s # <<>> /\ Head(s) \in ws THEN StripLeft(Tail(s), ws) ELSE s

RECURSIVE StripRight(_, _)
StripRight(s, ws) ==
  IF s # <<>> /\ s[Len(s)] \in ws
  THEN StripRight(SubSeq(s, 1, Len(s) - 1), ws)
  ELSE s

\* str.strip()
Strip(s) == StripRight(StripLeft(s, Whitespace), Whitespace)

\* str.split(sep): the fields between the separators, empty ones included
RECURSIVE Split(_, _)
Split(s, sep) ==
  IF \A i \in DOMAIN s : s[i] # sep
  THEN <<s>>
  ELSE LET k == CHOOSE i \in DOMAIN s : s[i] = sep /\ \A j \in 1..(i - 1) : s[j] # sep
       IN <<SubSeq(s, 1, k - 1)>> \o Split(SubSeq(s, k + 1, Len(s)), sep)

IsDigit(ch) == \E z \in DecimalZeros : ch \in z..(z + 9)

DigitValue(ch) == ch - (CHOOSE z \in DecimalZeros : ch \in z..(z + 9))

\* the text int() reads once the surrounding whitespace is skipped
IntTrimmed(s) == StripRight(StripLeft(s, IntWhitespace), IntWhitespace)

\* the part of the text after an optional sign
IntBody(s) ==
  LET t == IntTrimmed(s)
  IN IF t # <<>> /\ Head(t) \in {Plus, Minus} THEN Tail(t) ELSE t

\* int(str) accepts an optional sign and decimal digits, with single
\* underscores between digits, and no more than MaxStrDigits digits
IsIntText(s) ==
  LET body == IntBody(s)
  IN /\ body # <<>>
     /\ IsDigit(body[1])
     /\ IsDigit(body[Len(body)])
     /\ \A i \in DOMAIN body :
          \/ IsDigit(body[i])
          \/ body[i] = Underscore /\ i > 1 /\ IsDigit(body[i - 1])
     /\ Cardinality({i \in DOMAIN body : body[i] # Underscore}) <= MaxStrDigits

\* the value of the digits of s, its underscores skipped
RECURSIVE DigitsValue(_)
DigitsValue(s) ==
  IF s = <<>> THEN 0
  ELSE IF s[Len(s)] = Underscore THEN DigitsValue(SubSeq(s, 1, Len(s) - 1))
  ELSE 10 * DigitsValue(SubSeq(s, 1, Len(s) - 1)) + DigitValue(s[Len(s)])

ParseInt(s) ==
  IF Head(IntTrimmed(s)) = Minus THEN 0 - DigitsValue(IntBody(s))
  ELSE DigitsValue(IntBody(s))

\* decimal text of a natural number, as the file's author writes it
RECURSIVE IntText(_)
IntText(n) ==
  IF n < 10 THEN <<48 + n>>
  ELSE IntText(n \div 10) \o <<48 + (n % 10)>>

\* Python's sort is stable, also with reverse=True: the indices of keys
\* ordered by descending key, equal keys in their original order
RECURSIVE StableArgSortDesc(_, _)
StableArgSortDesc(keys, n) ==
  IF n = 0 THEN <<>>
  ELSE LET acc == StableArgSortDesc(keys, n - 1)
           pos == Cardinality({i \in DOMAIN acc : keys[acc[i]] >= keys[n]})
       IN SubSeq(acc, 1, pos) \o <<n>> \o SubSeq(acc, pos + 1, Len(acc))

Reverse(s) == [i \in 1..Len(s) |-> s[Len(s) + 1 - i]]

\* an ascending stable sort read backwards: equal keys come out reversed
AscendingReversedArgSort(keys, n) ==
  Reverse(StableArgSortDesc([i \in DOMAIN keys |-> 0 - keys[i]], n))


VARIABLES
  \* ---- AssetFetcher: constructor and video discovery
  f_pc,                 \* position: "new","constructed","channel","page","done","raised","off"
  simulation_mode,      \* self.__simulation_mode
  simulation_run_date,  \* self.__simulation_run_date: <<>> while the attribute is missing
  delta_video_days,     \* self.__delta_video_days
  channel_list,         \* argument of getVideoIdsFromChannels: sequence of channel ids
  feeds,                \* the feed service: channel id -> publish times of its uploads feed
  ci,                   \* index of the channel being processed
  next_page_token,      \* 0 is None, p > 0 is the token of page p
  videos,               \* the result being built
  requests,             \* playlistItems().list calls made so far
  f_raised,             \* exception that left the constructor, or "none"
  \* ---- AssetFetcher.parseChannelFile
  c_pc,                 \* "edit" while the file is written, "parsed", "off"
  channels_file,        \* lines of self.__channels_filename, each a sequence of characters
  parsed_channels,      \* what parseChannelFile did: [raised, channels]
  \* ---- AssetFetcher.extractRecommendationsFromTranscript
  x_pc,                 \* "ask", "parse", "returned", "off"
  resp_text,            \* response.text.strip(), a sequence of tokens
  extracted,            \* how the call ended: [raised, stocks, warned]
  \* ---- AssetFetcher.identifyAssetsFromTranscript
  i_pc,                 \* "loop", "done", "off"
  ti,                   \* transcripts processed so far
  all_stocks,           \* the concatenated per-transcript lists
  i_warnings,           \* warnings printed by the loop's except clause
  sorted_stocks,        \* the result
  \* ---- AssetPurchaser
  p_pc,                 \* "idle", "loop", "done", "rejected", "off"
  runs,                 \* constructions so far
  ledger,               \* rows of portfolio_simulation.csv, as stored in the file
  st_blksize,           \* the block size of the ledger file's device
  file,                 \* self.file of every object constructed so far:
                        \* [status, rows, buf, raw]: the rows written to it,
                        \* how many of them its text layer has passed to its
                        \* binary buffer, and how many of those are in the ledger
  arg_assets,           \* constructor argument assets
  arg_asset_purchase_amounts,     \* constructor argument, <<>> for None
  arg_universal_purchase_amount,  \* constructor argument, <<>> for None
  p_assets,             \* self.__assets
  p_asset_purchase_amounts,       \* self.__asset_purchase_amounts
  p_simulation_mode,    \* self.__simulation_mode
  p_valid_purchase_days,          \* self.__valid_purchase_days
  expiration_date_str,  \* line 36, <<>> before it is computed
  pi,                   \* position of the zip loop
  lookups,              \* price lookups of this construction: [ticker, hist]
  p_errors              \* error lines printed by this construction

fetchVars == <<f_pc, simulation_mode, simulation_run_date, delta_video_days,
               channel_list, feeds, ci, next_page_token, videos, requests, f_raised>>

channelVars == <<c_pc, channels_file, parsed_channels>>

extractVars == <<x_pc, resp_text, extracted>>

identifyVars == <<i_pc, ti, all_stocks, i_warnings, sorted_stocks>>

purchaseVars == <<p_pc, runs, ledger, st_blksize, file, arg_assets,
                  arg_asset_purchase_amounts, arg_universal_purchase_amount,
                  p_assets, p_asset_purchase_amounts, p_simulation_mode,
                  p_valid_purchase_days, expiration_date_str, pi, lookups, p_errors>>

vars == <<fetchVars, channelVars, extractVars, identifyVars, purchaseVars>>

\* what each component leaves alone
notFetchVars == <<channelVars, extractVars, identifyVars, purchaseVars>>

notChannelVars == <<fetchVars, extractVars, identifyVars, purchaseVars>>

notExtractVars == <<fetchVars, channelVars, identifyVars, purchaseVars>>

notIdentifyVars == <<fetchVars, channelVars, extractVars, purchaseVars>>

notPurchaseVars == <<fetchVars, channelVars, extractVars, identifyVars>>

\* --------------------------------------------------------- video discovery
\* the uploads feed of channel c as the service returns it, page by page
FeedItems(feed, c) ==
  [i \in 1..Len(feed) |-> [videoId |-> <<c, i>>, publishedAt |-> feed[i]]]

\* response of playlistItems().list for page p (pageToken None is page 1)
PlaylistItemsResponse(feed, c, p) ==
  LET first == (p - 1) * PageSize + 1
      last  == Min(p * PageSize, Len(feed))
  IN [items |-> SubSeq(FeedItems(feed, c), first, last),
      nextPageToken |-> IF p * PageSize < Len(feed) THEN p + 1 ELSE 0]

PageOfToken(tok) == IF tok = 0 THEN 1 ELSE tok

\* published_after_date
ThresholdDate(run, delta) == run - delta

InWindowInclusiveOnly(thr, d, run) == thr < d /\ d <= run

\* threshold_date <= video_publish_date <= self.__simulation_run_date
InWindow(thr, d, run) == thr <= d /\ d <= run

\* the for loop over one page's items: ids appended before the loop ends
RECURSIVE ScanItems(_, _, _, _)
ScanItems(items, k, thr, run) ==
  IF k > Len(items) THEN <<>>
  ELSE LET d == items[k].publishedAt
       IN IF InWindow(thr, d, run)
          THEN <<items[k].videoId>> \o ScanItems(items, k + 1, thr, run)
          ELSE IF d < thr
               THEN <<>>
               ELSE ScanItems(items, k + 1, thr, run)

\* the value of next_page_token when the while loop tests it: the for loop's
\* reset to None is overwritten by the response's token
TokenAfterPage(resp) == resp.nextPageToken

ChannelLists == {s \in SeqsUpTo(ChannelIds, Cardinality(ChannelIds)) : NoRepeat(s)}

Feeds == SeqsUpTo(PubTimes, MaxFeedLen)

InitFetch ==
  /\ f_pc = "new"
  /\ simulation_mode = FALSE
  /\ simulation_run_date = <<>>
  /\ delta_video_days = 0
  /\ channel_list = <<>>
  /\ feeds = [c \in ChannelIds |-> <<>>]
  /\ ci = 0
  /\ next_page_token = 0
  /\ videos = <<>>
  /\ requests = <<>>
  /\ f_raised = "none"

IdleFetch ==
  /\ f_pc = "off"
  /\ simulation_mode = FALSE
  /\ simulation_run_date = <<>>
  /\ delta_video_days = 0
  /\ channel_list = <<>>
  /\ feeds = [c \in ChannelIds |-> <<>>]
  /\ ci = 0
  /\ next_page_token = 0
  /\ videos = <<>>
  /\ requests = <<>>
  /\ f_raised = "none"

\* AssetFetcher.__init__ up to the call of fetchAssets; the channel list is
\* what parseChannelFile returned
FetcherInit(sim, date, chans) ==
  /\ f_pc = "new"
  /\ simulation_mode' = sim
  /\ simulation_run_date' = IF sim /\ date # <<>> THEN date ELSE <<>>
  /\ delta_video_days' = DeltaVideoDays
  /\ channel_list' = chans
  /\ f_pc' = "constructed"
  /\ UNCHANGED <<feeds, ci, next_page_token, videos, requests, f_raised>>
  /\ UNCHANGED notFetchVars

\* getVideoIdsFromChannels, lines 67-81: settle the run date
StartDiscovery ==
  /\ f_pc = "constructed"
  /\ IF simulation_mode /\ simulation_run_date = <<>>
     THEN \* the attribute was never assigned: reading it raises
          /\ f_raised' = "AttributeError"
          /\ f_pc' = "raised"
          /\ UNCHANGED <<simulation_run_date, ci, videos>>
     ELSE /\ simulation_run_date' =
               IF ~simulation_mode THEN <<UtcNow>> ELSE simulation_run_date
          /\ videos' = <<>>
          /\ ci' = 1
          /\ f_pc' = "channel"
          /\ UNCHANGED f_raised
  /\ UNCHANGED <<simulation_mode, delta_video_days, channel_list, feeds,
                 next_page_token, requests>>
  /\ UNCHANGED notFetchVars

\* lines 83-93: the for loop takes its next channel and resolves its feed
ResolveChannel(feed) ==
  /\ f_pc = "channel"
  /\ ci <= Len(channel_list)
  /\ feeds' = [feeds EXCEPT ![channel_list[ci]] = feed]
  /\ next_page_token' = 0
  /\ f_pc' = "page"
  /\ UNCHANGED <<simulation_mode, simulation_run_date, delta_video_days,
                 channel_list, ci, videos, requests, f_raised>>
  /\ UNCHANGED notFetchVars

\* line 121: the for loop is exhausted, return videos
ReturnVideos ==
  /\ f_pc = "channel"
  /\ ci > Len(channel_list)
  /\ f_pc' = "done"
  /\ UNCHANGED <<simulation_mode, simulation_run_date, delta_video_days,
                 channel_list, feeds, ci, next_page_token, videos, requests, f_raised>>
  /\ UNCHANGED notFetchVars

\* lines 95-119: one iteration of the while loop
FetchPage ==
  /\ f_pc = "page"
  /\ LET c    == channel_list[ci]
         resp == PlaylistItemsResponse(feeds[c], c, PageOfToken(next_page_token))
         run  == simulation_run_date[1]
         thr  == ThresholdDate(run, delta_video_days)
         tok  == TokenAfterPage(resp)
     IN /\ requests' = Append(requests, [channel |-> c, pageToken |-> next_page_token])
        /\ videos' = videos \o ScanItems(resp.items, 1, thr, run)
        /\ next_page_token' = tok
        /\ IF tok = 0
           THEN ci' = ci + 1 /\ f_pc' = "channel"
           ELSE ci' = ci /\ f_pc' = "page"
  /\ UNCHANGED <<simulation_mode, simulation_run_date, delta_video_days,
                 channel_list, feeds, f_raised>>
  /\ UNCHANGED notFetchVars

NextFetch ==
  \/ \E sim \in BOOLEAN, date \in {<<>>, <<SimRunDate>>}, chans \in ChannelLists :
        FetcherInit(sim, date, chans)
  \/ StartDiscovery
  \/ \E feed \in Feeds : ResolveChannel(feed)
  \/ ReturnVideos
  \/ FetchPage

\* -------------------------------------------------------- parseChannelFile
\* n,c,p
HeaderLine == <<110, Comma, 99, Comma, 112, LineFeed>>

\* the rows a channel file is written from: name, channel id, priority.
\* The names are A (65), B (66), C (67).
ChannelNames == {<<65>>, <<66>>, <<67>>}

\* i1, i2, i3
ChannelIdOf(name) ==
  IF name = <<65>> THEN <<105, 49>>
  ELSE IF name = <<66>> THEN <<105, 50>> ELSE <<105, 51>>

Priorities == {1, 5, 10}

\* the line of a row; the rows of channel C carry blanks after the commas
RowLine(name, priority) ==
  LET gap == IF name = <<67>> THEN <<Blank>> ELSE <<>>
  IN name \o <<Comma>> \o gap \o ChannelIdOf(name) \o <<Comma>> \o gap
       \o IntText(priority) \o <<LineFeed>>

\* D,<tab>i4,<tab>1_0: tabs after the commas, the priority 10 written 1_0
TabbedLine ==
  <<68, Comma, Tab, 105, 52, Comma, Tab, 49, Underscore, 48, LineFeed>>

\* A,i1,<arabic-indic five>: the priority 5 written with a non-ASCII digit
ForeignDigitLine == <<65, Comma, 105, 49, Comma, 1637, LineFeed>>

\* B,i2: a row that lacks its priority column
ShortLine == <<66, Comma, 105, 50, LineFeed>>

\* B,i2,5_: a priority that int() rejects
BadPriorityLine == <<66, Comma, 105, 50, Comma, 53, Underscore, LineFeed>>

FileLines ==
  {RowLine(n, p) : n \in ChannelNames, p \in Priorities}
    \cup {TabbedLine, ForeignDigitLine, ShortLine, BadPriorityLine}

\* line 49: line.strip().split(',')
LineFields(line) == Split(Strip(line), Comma)

\* lines 49-50 succeed on this line
WellFormedLine(line) ==
  /\ Len(LineFields(line)) = 3
  /\ IsIntText(Strip(LineFields(line)[3]))

\* line 50: the tuple appended for a line
ChannelTuple(line) ==
  LET f == LineFields(line)
  IN <<Strip(f[1]), Strip(f[2]), ParseInt(Strip(f[3]))>>

SortChannelsTiesReversed(channels) ==
  LET order == AscendingReversedArgSort([i \in DOMAIN channels |-> channels[i][3]], Len(channels))
  IN [k \in 1..Len(channels) |-> channels[order[k]]]

\* line 53: channels.sort(key=lambda x: x[2], reverse=True)
SortChannels(channels) ==
  LET order == StableArgSortDesc([i \in DOMAIN channels |-> channels[i][3]], Len(channels))
  IN [k \in 1..Len(channels) |-> channels[order[k]]]

\* parseChannelFile on the file's lines
parseChannelFile(lines) ==
  LET rows == Tail(lines)
  IN IF \E i \in DOMAIN rows : ~WellFormedLine(rows[i])
     THEN [raised |-> "ValueError", channels |-> <<>>]
     ELSE LET channels == [i \in DOMAIN rows |-> ChannelTuple(rows[i])]
              sorted   == SortChannels(channels)
          IN [raised |-> "none",
              channels |-> [k \in DOMAIN sorted |-> <<sorted[k][1], sorted[k][2]>>]]

NoParse == [raised |-> "none", channels |-> <<>>]

InitChannel ==
  /\ c_pc = "edit"
  /\ channels_file = <<HeaderLine>>
  /\ parsed_channels = NoParse

IdleChannel ==
  /\ c_pc = "off"
  /\ channels_file = <<HeaderLine>>
  /\ parsed_channels = NoParse

\* the file's author adds a row
WriteRow(line) ==
  /\ c_pc = "edit"
  /\ Len(channels_file) <= MaxRows
  /\ channels_file' = Append(channels_file, line)
  /\ UNCHANGED <<c_pc, parsed_channels>>
  /\ UNCHANGED notChannelVars

ParseChannelFile ==
  /\ c_pc = "edit"
  /\ parsed_channels' = parseChannelFile(channels_file)
  /\ c_pc' = "parsed"
  /\ UNCHANGED channels_file
  /\ UNCHANGED notChannelVars

NextChannel ==
  \/ \E line \in FileLines : WriteRow(line)
  \/ ParseChannelFile


\* ------------------------------------ extractRecommendationsFromTranscript
\* The model's reply is a sequence of tokens, each standing for a piece of
\* text; the reply's text is the tokens joined by blanks.
\*   FENCE three backticks      FENCEJSON three backticks and the word json
\*   LBRACE {      RBRACE }
\*   KEY "recommended_stocks":      OTHERKEY "other":
\*   LIST(v) a JSON array of the ticker strings v      STR "AAPL"
\*   JUNK hello
Tok(t) == [t |-> t, v |-> <<>>]

FENCE == Tok("fence")

FENCEJSON == Tok("fence_json")

LBRACE == Tok("{")

RBRACE == Tok("}")

KEY == Tok("recommended_stocks:")

OTHERKEY == Tok("other:")

STR == Tok("string")

JUNK == Tok("hello")

LIST(v) == [t |-> "array", v |-> v]

\* line 174: the re.sub with the fence pattern, then strip(): removes a fence
\* (with or without json) that opens the text and a fence that closes it
CleanResponse(text) ==
  LET opened == IF text # <<>> /\ Head(text) \in {FENCE, FENCEJSON} THEN Tail(text) ELSE text
  IN IF opened # <<>> /\ opened[Len(opened)] = FENCE
     THEN SubSeq(opened, 1, Len(opened) - 1)
     ELSE opened

\* lines 176-180: re.search(r"\{.*\}", cleaned, re.DOTALL) is greedy: from
\* the first { to the last } after it; without a match the cleaned text stays
FinalText(cleaned) ==
  LET opens  == {i \in DOMAIN cleaned : cleaned[i] = LBRACE}
      closes == {j \in DOMAIN cleaned : cleaned[j] = RBRACE}
  IN IF opens = {} THEN cleaned
     ELSE LET first == CHOOSE i \in opens : \A k \in opens : i <= k
          IN IF \E j \in closes : j > first
             THEN LET last == CHOOSE j \in closes : \A k \in closes : k <= j
                  IN SubSeq(cleaned, first, last)
             ELSE cleaned

JsonError == [kind |-> "error"]

\* line 181: json.loads on the tokens' text
RECURSIVE JsonLoads(_)
JsonLoads(toks) ==
  IF Len(toks) = 1 /\ toks[1].t = "array"
  THEN [kind |-> "array", items |-> toks[1].v]
  ELSE IF toks = <<STR>>
  THEN [kind |-> "string"]
  ELSE IF toks = <<LBRACE, RBRACE>>
  THEN [kind |-> "object", key |-> "none", val |-> JsonError]
  ELSE IF Len(toks) >= 4 /\ toks[1] = LBRACE /\ toks[Len(toks)] = RBRACE
          /\ toks[2] \in {KEY, OTHERKEY}
  THEN LET inner == JsonLoads(SubSeq(toks, 3, Len(toks) - 1))
       IN IF inner.kind = "error" THEN JsonError
          ELSE [kind |-> "object", key |-> toks[2].t, val |-> inner]
  ELSE JsonError

\* lines 182-184: resp_json.get("recommended_stocks", []), [] unless a list
StocksOf(obj) ==
  IF obj.key = KEY.t /\ obj.val.kind = "array" THEN obj.val.items ELSE <<>>

\* lines 171-189.  A reply that json.loads rejects, or whose value has no
\* .get, reaches the except clause, which prints the warning and binds
\* nothing: the return statement then reads the unbound local stocks.
extractRecommendationsFromTranscript(text) ==
  LET v == JsonLoads(FinalText(CleanResponse(text)))
  IN IF v.kind = "object"
     THEN [raised |-> "none", stocks |-> StocksOf(v), warned |-> FALSE]
     ELSE [raised |-> "UnboundLocalError", stocks |-> <<>>, warned |-> TRUE]

Tickers == {"AAPL", "MU", "TSM"}

BodyTokens == {LBRACE, RBRACE, KEY, OTHERKEY, STR, JUNK, LIST(<<"AAPL", "MU">>)}

\* the replies tried: an optional opening, a body, an optional closing
Replies ==
  {pre \o body \o post :
     pre \in {<<>>, <<FENCE>>, <<FENCEJSON>>, <<JUNK>>},
     body \in SeqsUpTo(BodyTokens, MaxBody),
     post \in {<<>>, <<FENCE>>, <<JUNK>>}}

NotExtracted == [raised |-> "none", stocks |-> <<>>, warned |-> FALSE]

InitExtract ==
  /\ x_pc = "ask"
  /\ resp_text = <<>>
  /\ extracted = NotExtracted

IdleExtract ==
  /\ x_pc = "off"
  /\ resp_text = <<>>
  /\ extracted = NotExtracted

\* lines 165-171: the model's reply arrives
GenerateContent ==
  /\ x_pc = "ask"
  /\ \E text \in Replies : resp_text' = text
  /\ x_pc' = "parse"
  /\ UNCHANGED extracted
  /\ UNCHANGED notExtractVars

\* lines 173-189
ParseResponse ==
  /\ x_pc = "parse"
  /\ extracted' = extractRecommendationsFromTranscript(resp_text)
  /\ x_pc' = "returned"
  /\ UNCHANGED resp_text
  /\ UNCHANGED notExtractVars

NextExtract ==
  \/ GenerateContent
  \/ ParseResponse

\* -------------------------------------------- identifyAssetsFromTranscript
\* Counter(all_stocks): the distinct items in order of first occurrence, each
\* with its number of occurrences
RECURSIVE CounterOf(_)
CounterOf(stocks) ==
  IF stocks = <<>> THEN <<>>
  ELSE LET before == CounterOf(SubSeq(stocks, 1, Len(stocks) - 1))
           x      == stocks[Len(stocks)]
       IN IF \E i \in DOMAIN before : before[i].item = x
          THEN [i \in DOMAIN before |->
                  IF before[i].item = x
                  THEN [item |-> x, count |-> before[i].count + 1]
                  ELSE before[i]]
          ELSE Append(before, [item |-> x, count |-> 1])

MostCommonTiesReversed(counts) ==
  LET order == AscendingReversedArgSort([i \in DOMAIN counts |-> counts[i].count], Len(counts))
  IN [k \in 1..Len(counts) |-> counts[order[k]]]

\* Counter.most_common(): sorted(items, key=count, reverse=True)
MostCommon(counts) ==
  LET order == StableArgSortDesc([i \in DOMAIN counts |-> counts[i].count], Len(counts))
  IN [k \in 1..Len(counts) |-> counts[order[k]]]

\* lines 226-229
SortedStocks(stocks) ==
  LET common == MostCommon(CounterOf(stocks))
  IN [k \in DOMAIN common |-> common[k].item]

\* the replies the model gives to the transcripts: a well-formed object for
\* each ticker list of up to two tickers, and a reply that is not JSON
TickerLists == SeqsUpTo(Tickers, 2)

TranscriptReplies ==
  {<<FENCEJSON, LBRACE, KEY, LIST(v), RBRACE, FENCE>> : v \in TickerLists} \cup {<<JUNK>>}

InitIdentify ==
  /\ i_pc = "loop"
  /\ ti = 0
  /\ all_stocks = <<>>
  /\ i_warnings = 0
  /\ sorted_stocks = <<>>

IdleIdentify ==
  /\ i_pc = "off"
  /\ ti = 0
  /\ all_stocks = <<>>
  /\ i_warnings = 0
  /\ sorted_stocks = <<>>

\* lines 216-223: one transcript of the for loop
ProcessTranscript(text) ==
  /\ i_pc = "loop"
  /\ ti < MaxTranscripts
  /\ LET r      == extractRecommendationsFromTranscript(text)
         stocks == IF r.raised = "none" THEN r.stocks ELSE <<>>
     IN /\ Len(all_stocks) + Len(stocks) <= MaxStocks
        /\ all_stocks' = all_stocks \o stocks
        /\ i_warnings' = IF r.raised = "none" THEN i_warnings ELSE i_warnings + 1
  /\ ti' = ti + 1
  /\ UNCHANGED <<i_pc, sorted_stocks>>
  /\ UNCHANGED notIdentifyVars

\* lines 225-229: the loop is over
RankStocks ==
  /\ i_pc = "loop"
  /\ sorted_stocks' = SortedStocks(all_stocks)
  /\ i_pc' = "done"
  /\ UNCHANGED <<ti, all_stocks, i_warnings>>
  /\ UNCHANGED notIdentifyVars

NextIdentify ==
  \/ \E text \in TranscriptReplies : ProcessTranscript(text)
  \/ RankStocks

\* ----------------------------------------------------------- AssetPurchaser
\* A quantity is an optional value too: <<q>>, or <<>> for Python's None.
\* Prices and quantities are floats with whole values.  An asset is its
\* ticker text, given as a name with the number of bytes of the text.
\*
\* self.file is a buffered text file that the code never flushes or closes.
\* A row written to it is collected by the text layer, which passes what it
\* collected to the binary buffer once that reaches ChunkSize bytes; the
\* binary buffer passes bytes to portfolio_simulation.csv when it cannot
\* hold what it is given.  What is left reaches the file when the object is
\* finalised (it is garbage collected, or the interpreter exits), and never
\* if the process is killed before.

Ticker(name, bytes) == [name |-> name, bytes |-> bytes]

AAPL == Ticker("AAPL", 4)

MU == Ticker("MU", 2)

\* tickers of 4100 letters: one row fits the text layer, two do not
LongA == Ticker("A x 4100", 4100)

LongB == Ticker("B x 4100", 4100)

\* a ticker of 9000 letters: its row alone exceeds ChunkSize
Huge == Ticker("A x 9000", 9000)

\* lines 7-14: hist is the price history the lookup returned, <<>> when empty
get_stock_price(hist) ==
  IF hist # <<>> THEN hist[Len(hist)] ELSE SentinelPrice

\* line 36: the date of datetime.now() + timedelta(days=valid_purchase_days),
\* now being the local clock's date when the construction reads it
ExpirationDate(now, valid_purchase_days) == now + valid_purchase_days

NoRowOnFailedLookup(asset, ticker_price, purchase_quantity, expiration_date) ==
  IF ticker_price = SentinelPrice THEN <<>>
  ELSE <<[asset |-> asset, price |-> ticker_price,
          quantity |-> purchase_quantity, expiration |-> expiration_date]>>

\* lines 25-28: the rows __purchase_asset writes once the price is looked up
PurchaseRows(asset, ticker_price, purchase_quantity, expiration_date) ==
  <<[asset |-> asset, price |-> ticker_price,
     quantity |-> purchase_quantity, expiration |-> expiration_date]>>

\* the length of str(x) for a float x with a whole value: 150.0, -1.0
FloatBytes(x) ==
  IF x < 0 THEN Len(IntText(0 - x)) + 3 ELSE Len(IntText(x)) + 2

\* line 28: the bytes of the row's text: the four fields, the three ", "
\* between them, the date's ten characters and the line feed
RowBytes(row) ==
  row.asset.bytes + 2 + FloatBytes(row.price) + 2
    + (IF row.quantity = <<>> THEN 4 ELSE FloatBytes(row.quantity[1])) + 2 + 10 + 1

\* the bytes of the rows' texts together
RECURSIVE Bytes(_)
Bytes(rows) ==
  IF rows = <<>> THEN 0
  ELSE IF Len(rows) = 1 THEN RowBytes(rows[1])
  ELSE LET half == Len(rows) \div 2
       IN Bytes(SubSeq(rows, 1, half)) + Bytes(SubSeq(rows, half + 1, Len(rows)))

\* the rows the text layer holds, and those the binary buffer holds
PendingRows(f) == SubSeq(f.rows, f.buf + 1, Len(f.rows))

BufferedRows(f) == SubSeq(f.rows, f.raw + 1, f.buf)

\* the text layer passes its rows to the binary buffer of the given size.
\* They are kept there if they fit beside what it holds; otherwise it first
\* writes what it holds to the file, and then writes the new rows too if
\* they exceed its size.
PassDown(f, size) ==
  LET b == Bytes(PendingRows(f))
  IN IF b <= size - Bytes(BufferedRows(f))
     THEN [f EXCEPT !.buf = Len(f.rows)]
     ELSE IF b > size
     THEN [f EXCEPT !.buf = Len(f.rows), !.raw = Len(f.rows)]
     ELSE [f EXCEPT !.buf = Len(f.rows), !.raw = f.buf]

\* line 28: self.file.write(row).  The text layer passes down what it holds
\* if the row would carry it beyond ChunkSize, takes the row, and passes
\* down again if it now holds ChunkSize bytes or more.
FileWrite(f, row, size) ==
  LET made == IF PendingRows(f) # <<>> /\ Bytes(PendingRows(f)) + RowBytes(row) > ChunkSize
              THEN PassDown(f, size)
              ELSE f
      taken == [made EXCEPT !.rows = Append(@, row)]
  IN IF Bytes(PendingRows(taken)) >= ChunkSize THEN PassDown(taken, size) ELSE taken

\* the rows written one after the other
RECURSIVE FileWriteAll(_, _, _)
FileWriteAll(f, rows, size) ==
  IF rows = <<>> THEN f
  ELSE FileWriteAll(FileWrite(f, Head(rows), size), Tail(rows), size)

\* line 26: the error printed for a failed lookup
LookupErrors(ticker_price) == IF ticker_price = SentinelPrice THEN 1 ELSE 0

NoQuantityCheck(amounts, universal) == FALSE

\* lines 44-46: neither quantity source was given
MissingQuantitySource(amounts, universal) == amounts = <<>> /\ universal = <<>>

OneDefaultAmount(universal, assets) == <<universal>>

\* line 50: [universal_purchase_amount] * len(assets)
DefaultAmounts(universal, assets) == [i \in 1..Len(assets) |-> universal]

OpenTruncating(content) == <<>>

\* line 59: open(portfolio_simulation_file, 'a') keeps the file's content
OpenAppend(content) == content

\* line 37: the number of pairs zip(assets, amounts) yields
ZipLen(assets, amounts) == Min(Len(assets), Len(amounts))

\* an object without self.file: the constructor returned on line 48, or ran
\* with simulation_mode false
NoFile == [status |-> "none", rows |-> <<>>, buf |-> 0, raw |-> 0]

\* line 59: a file just opened, nothing written to it yet
OpenedFile == [status |-> "open", rows |-> <<>>, buf |-> 0, raw |-> 0]

\* the arguments of one constructor call
Call(assets, valid_purchase_days, amounts, universal, sim) ==
  [assets |-> assets, valid_purchase_days |-> valid_purchase_days,
   asset_purchase_amounts |-> amounts, universal_purchase_amount |-> universal,
   simulation_mode |-> sim]

\* the constructor calls tried.  asset_purchase_amounts is <<>> for None or
\* holds the list; universal_purchase_amount is <<>> for None.

\* a per-asset list as long as the asset list
ListCall == Call(<<MU, AAPL>>, ValidPurchaseDays, << <<2, 3>> >>, <<>>, TRUE)

\* a per-asset list longer than the asset list
LongerListCall == Call(<<MU>>, ValidPurchaseDays - 1, << <<2, 3>> >>, <<>>, TRUE)

\* a uniform amount; the first row leaves the text layer when the second is
\* written
UniformCall ==
  Call(<<LongA, LongB>>, ValidPurchaseDays, <<>>, <<UniversalPurchaseAmount>>, TRUE)

\* a per-asset list shorter than the asset list, beside a uniform amount; the
\* row leaves the text layer as it is written
ShortListCall ==
  Call(<<Huge, AAPL>>, ValidPurchaseDays, << <<2>> >>, <<UniversalPurchaseAmount>>, TRUE)

\* simulation mode off
LiveCall ==
  Call(<<AAPL, MU>>, ValidPurchaseDays, <<>>, <<UniversalPurchaseAmount>>, FALSE)

\* neither quantity source
NoAmountCall == Call(<<AAPL, MU>>, ValidPurchaseDays, <<>>, <<>>, TRUE)

ConstructorCalls ==
  {ListCall, LongerListCall, UniformCall, ShortListCall, LiveCall, NoAmountCall}

\* the dates datetime.now() shows when a construction reads it.  It is the
\* local clock: its date is the UTC date moved by the offset of the time
\* zone in force, which is whatever the zone's file says; the code sets no
\* limit to it.  Offsets of up to MaxClockOffset days either way are tried.
LocalDates == (UtcNow - MaxClockOffset)..(UtcNow + MaxClockOffset)

\* the constructions tried: a call, and the date the clock shows to it.
\* Every call is among them, and so are the first and the last of the dates.
Constructions ==
  (ConstructorCalls \X LocalDates) \cap
    { <<ListCall, UtcNow - MaxClockOffset>>,
      <<LongerListCall, UtcNow>>,
      <<UniformCall, UtcNow - 1>>, <<UniformCall, UtcNow + 1>>,
      <<ShortListCall, UtcNow + MaxClockOffset>>,
      <<LiveCall, UtcNow + 2>>,
      <<NoAmountCall, UtcNow - 2>> }

\* what the price service returns: no history, or one close
Histories == {<<>>, <<150>>}

NoRows == <<>>

InitPurchase ==
  /\ p_pc = "idle"
  /\ runs = 0
  /\ ledger = NoRows
  /\ st_blksize \in BlockSizes
  /\ file = <<>>
  /\ arg_assets = <<>>
  /\ arg_asset_purchase_amounts = <<>>
  /\ arg_universal_purchase_amount = <<>>
  /\ p_assets = <<>>
  /\ p_asset_purchase_amounts = <<>>
  /\ p_simulation_mode = FALSE
  /\ p_valid_purchase_days = 0
  /\ expiration_date_str = <<>>
  /\ pi = 0
  /\ lookups = <<>>
  /\ p_errors = 0

IdlePurchase ==
  /\ p_pc = "off"
  /\ runs = 0
  /\ ledger = NoRows
  /\ st_blksize = 4096
  /\ file = <<>>
  /\ arg_assets = <<>>
  /\ arg_asset_purchase_amounts = <<>>
  /\ arg_universal_purchase_amount = <<>>
  /\ p_assets = <<>>
  /\ p_asset_purchase_amounts = <<>>
  /\ p_simulation_mode = FALSE
  /\ p_valid_purchase_days = 0
  /\ expiration_date_str = <<>>
  /\ pi = 0
  /\ lookups = <<>>
  /\ p_errors = 0

\* AssetPurchaser.__init__, lines 40-59, and line 36: a new object is
\* constructed; now is the local clock's date
Construct(assets, valid_purchase_days, amounts, universal, sim, now) ==
  /\ p_pc \in {"idle", "done", "rejected"}
  /\ runs < MaxRuns
  /\ runs' = runs + 1
  /\ arg_assets' = assets
  /\ arg_asset_purchase_amounts' = amounts
  /\ arg_universal_purchase_amount' = universal
  /\ lookups' = <<>>
  /\ IF MissingQuantitySource(amounts, universal)
     THEN /\ p_errors' = 1
          /\ p_pc' = "rejected"
          /\ p_assets' = <<>>
          /\ p_asset_purchase_amounts' = <<>>
          /\ p_simulation_mode' = FALSE
          /\ p_valid_purchase_days' = 0
          /\ expiration_date_str' = <<>>
          /\ file' = Append(file, NoFile)
          /\ pi' = 0
          /\ UNCHANGED ledger
     ELSE /\ p_errors' = 0
          /\ p_assets' = assets
          /\ p_asset_purchase_amounts' =
               IF amounts # <<>>
               THEN [i \in DOMAIN amounts[1] |-> <<amounts[1][i]>>]
               ELSE DefaultAmounts(universal, assets)
          /\ p_simulation_mode' = sim
          /\ p_valid_purchase_days' = valid_purchase_days
          /\ file' = Append(file, IF sim THEN OpenedFile ELSE NoFile)
          /\ ledger' = IF sim THEN OpenAppend(ledger) ELSE ledger
          /\ expiration_date_str' = <<ExpirationDate(now, valid_purchase_days)>>
          /\ pi' = 1
          /\ p_pc' = "loop"
  /\ UNCHANGED st_blksize
  /\ UNCHANGED notPurchaseVars

\* lines 16-29 and 37-38: one pair of the zip loop; line 28 writes the row
\* to self.file, which may pass rows on to the ledger
PurchaseAsset(hist) ==
  /\ p_pc = "loop"
  /\ pi <= ZipLen(p_assets, p_asset_purchase_amounts)
  /\ IF p_simulation_mode
     THEN LET asset == p_assets[pi]
              ticker_price == get_stock_price(hist)
              written == PurchaseRows(asset, ticker_price,
                                      p_asset_purchase_amounts[pi],
                                      expiration_date_str[1])
              f == FileWriteAll(file[runs], written, st_blksize)
          IN /\ lookups' = Append(lookups, [ticker |-> asset, hist |-> hist])
             /\ p_errors' = p_errors + LookupErrors(ticker_price)
             /\ file' = [file EXCEPT ![runs] = f]
             /\ ledger' = ledger \o SubSeq(f.rows, file[runs].raw + 1, f.raw)
     ELSE UNCHANGED <<lookups, p_errors, file, ledger>>
  /\ pi' = pi + 1
  /\ UNCHANGED <<p_pc, runs, st_blksize, arg_assets,
                 arg_asset_purchase_amounts, arg_universal_purchase_amount,
                 p_assets, p_asset_purchase_amounts, p_simulation_mode,
                 p_valid_purchase_days, expiration_date_str>>
  /\ UNCHANGED notPurchaseVars

\* the zip loop is exhausted and __init__ returns
FinishPurchase ==
  /\ p_pc = "loop"
  /\ pi > ZipLen(p_assets, p_asset_purchase_amounts)
  /\ p_pc' = "done"
  /\ UNCHANGED <<runs, ledger, st_blksize, file, arg_assets,
                 arg_asset_purchase_amounts, arg_universal_purchase_amount,
                 p_assets, p_asset_purchase_amounts, p_simulation_mode,
                 p_valid_purchase_days, expiration_date_str, pi, lookups, p_errors>>
  /\ UNCHANGED notPurchaseVars

\* the r-th object, whose constructor has returned, is finalised: its file
\* is closed, and the rows its two buffers still hold are appended to the
\* ledger
FinalizeFile(r) ==
  /\ r \in DOMAIN file
  /\ file[r].status = "open"
  /\ r < runs \/ p_pc = "done"
  /\ ledger' = ledger \o SubSeq(file[r].rows, file[r].raw + 1, Len(file[r].rows))
  /\ file' = [file EXCEPT ![r].status = "closed",
                          ![r].buf = Len(file[r].rows),
                          ![r].raw = Len(file[r].rows)]
  /\ UNCHANGED <<p_pc, runs, st_blksize, arg_assets,
                 arg_asset_purchase_amounts, arg_universal_purchase_amount,
                 p_assets, p_asset_purchase_amounts, p_simulation_mode,
                 p_valid_purchase_days, expiration_date_str, pi, lookups, p_errors>>
  /\ UNCHANGED notPurchaseVars

NextPurchase ==
  \/ \E c \in Constructions :
        Construct(c[1].assets, c[1].valid_purchase_days,
                  c[1].asset_purchase_amounts, c[1].universal_purchase_amount,
                  c[1].simulation_mode, c[2])
  \/ \E hist \in Histories : PurchaseAsset(hist)
  \/ FinishPurchase
  \/ \E r \in 1..MaxRuns : FinalizeFile(r)

\* ----------------------------------------------------------- specifications
StartFetch == InitFetch /\ IdleChannel /\ IdleExtract /\ IdleIdentify /\ IdlePurchase

SpecFetch == StartFetch /\ [][NextFetch]_vars

StartChannel == IdleFetch /\ InitChannel /\ IdleExtract /\ IdleIdentify /\ IdlePurchase

SpecChannel == StartChannel /\ [][NextChannel]_vars

StartExtract == IdleFetch /\ IdleChannel /\ InitExtract /\ IdleIdentify /\ IdlePurchase

SpecExtract == StartExtract /\ [][NextExtract]_vars

StartIdentify == IdleFetch /\ IdleChannel /\ IdleExtract /\ InitIdentify /\ IdlePurchase

SpecIdentify == StartIdentify /\ [][NextIdentify]_vars

StartPurchase == IdleFetch /\ IdleChannel /\ IdleExtract /\ IdleIdentify /\ InitPurchase

SpecPurchase == StartPurchase /\ [][NextPurchase]_vars

\* ------------------------------------------------- claims: video discovery
NewestFirst(feed) == \A i, j \in DOMAIN feed : i < j => feed[i] >= feed[j]

ChannelPos(c) == CHOOSE k \in DOMAIN channel_list : channel_list[k] = c

\* C1: once a page of a channel's feed held an item older than the threshold,
\* no further page of that channel is requested: every request for a page
\* after the first finds no older-than-threshold item on the pages before it.
C1_PagingStopsAtOldItem ==
  \A r \in DOMAIN requests :
    LET q   == requests[r]
        thr == simulation_run_date[1] - delta_video_days
        seen == Min((q.pageToken - 1) * PageSize, Len(feeds[q.channel]))
    IN q.pageToken # 0 => \A i \in 1..seen : feeds[q.channel][i] >= thr

\* C2: for every channel whose feed is newest-first, an item's id is in the
\* result iff its publish time lies in [run date - delta_video_days, run
\* date]; the result follows the channel list's order and, inside a channel,
\* the feed's order.
C2_WindowSelection ==
  f_pc = "done" =>
    LET run == simulation_run_date[1]
        thr == run - delta_video_days
    IN /\ \A k \in DOMAIN channel_list :
            LET c == channel_list[k]
            IN NewestFirst(feeds[c]) =>
                 \A i \in DOMAIN feeds[c] :
                    (<<c, i>> \in Range(videos)) <=> (thr <= feeds[c][i] /\ feeds[c][i] <= run)
       /\ \A a, b \in DOMAIN videos :
            a < b => \/ ChannelPos(videos[a][1]) < ChannelPos(videos[b][1])
                     \/ /\ videos[a][1] = videos[b][1]
                        /\ videos[a][2] < videos[b][2]

\* a finished run over two channels, the second in id order listed first, one
\* of them with a newest-first feed holding an item after the run date (left
\* out), one on the threshold (selected) and one before it (left out)
C2_Witness ==
  /\ f_pc = "done"
  /\ Len(channel_list) = 2
  /\ \E c \in Range(channel_list) :
       LET run == simulation_run_date[1]
           thr == run - delta_video_days
       IN /\ NewestFirst(feeds[c])
          /\ \E i, j, k \in DOMAIN feeds[c] :
               /\ feeds[c][i] > run /\ <<c, i>> \notin Range(videos)
               /\ feeds[c][j] = thr /\ <<c, j>> \in Range(videos)
               /\ feeds[c][k] < thr /\ <<c, k>> \notin Range(videos)

\* C10: constructed in simulation mode without a run date, discovery takes the
\* clock's time as the run date and goes on without raising.
C10_RunDateDefaultsToNow ==
  [][(f_pc = "constructed" /\ simulation_mode /\ simulation_run_date = <<>>)
       => (f_raised' = "none" /\ simulation_run_date' = <<UtcNow>> /\ f_pc' = "channel")]_vars

\* ------------------------------------------------ claims: parseChannelFile
IndexPermutations(n) ==
  {f \in [1..n -> 1..n] : \A i, j \in 1..n : f[i] = f[j] => i = j}

\* C9: on a well-formed file the result is the file's data rows as (name,
\* channel id) pairs, ordered by descending priority, equal priorities in
\* file order.
C9_ChannelsByPriorityStable ==
  (c_pc = "parsed" /\ \A i \in 2..Len(channels_file) : WellFormedLine(channels_file[i])) =>
    LET rows == Tail(channels_file)
        n    == Len(rows)
        out  == parsed_channels.channels
        prio(i) == ChannelTuple(rows[i])[3]
    IN /\ parsed_channels.raised = "none"
       /\ Len(out) = n
       /\ \E f \in IndexPermutations(n) :
            /\ \A k \in 1..n :
                 out[k] = <<ChannelTuple(rows[f[k]])[1], ChannelTuple(rows[f[k]])[2]>>
            /\ \A k, l \in 1..n :
                 k < l => \/ prio(f[k]) > prio(f[l])
                          \/ prio(f[k]) = prio(f[l]) /\ f[k] < f[l]

\* the file A,i1,1 / B,i2,5 / C, i3, 5 parsed to B, C, A
C9_Witness ==
  /\ c_pc = "parsed"
  /\ channels_file = <<HeaderLine, RowLine(<<65>>, 1), RowLine(<<66>>, 5), RowLine(<<67>>, 5)>>
  /\ parsed_channels.channels =
       << <<(<<66>>), (<<105, 50>>)>>, <<(<<67>>), (<<105, 51>>)>>, <<(<<65>>), (<<105, 49>>)>> >>

\* ------------------------------------------- claims: recommendation parsing
\* C3: a reply that does not parse into a JSON object makes
\* extractRecommendationsFromTranscript log a warning and return the empty
\* list, without raising.
C3_UnparsableReplyYieldsEmptyList ==
  (x_pc = "returned" /\ JsonLoads(FinalText(CleanResponse(resp_text))).kind # "object") =>
    /\ extracted.raised = "none"
    /\ extracted.stocks = <<>>
    /\ extracted.warned

OccurrencesIn(stocks, x) == Cardinality({i \in DOMAIN stocks : stocks[i] = x})

FirstOccurrenceIn(stocks, x) ==
  CHOOSE i \in DOMAIN stocks : stocks[i] = x /\ \A j \in 1..(i - 1) : stocks[j] # x

\* C4: the result holds each distinct ticker of the concatenated lists once
\* and nothing else, by descending number of occurrences, equal counts in
\* order of first occurrence.
C4_RankedByCountThenFirstSeen ==
  i_pc = "done" =>
    /\ NoRepeat(sorted_stocks)
    /\ Range(sorted_stocks) = Range(all_stocks)
    /\ \A a, b \in DOMAIN sorted_stocks :
         a < b =>
           LET x == sorted_stocks[a]
               y == sorted_stocks[b]
           IN \/ OccurrencesIn(all_stocks, x) > OccurrencesIn(all_stocks, y)
              \/ /\ OccurrencesIn(all_stocks, x) = OccurrencesIn(all_stocks, y)
                 /\ FirstOccurrenceIn(all_stocks, x) < FirstOccurrenceIn(all_stocks, y)

\* three transcripts giving AAPL MU / MU TSM / AAPL, ranked AAPL, MU, TSM
C4_Witness ==
  /\ i_pc = "done"
  /\ ti = 3
  /\ all_stocks = <<"AAPL", "MU", "MU", "TSM", "AAPL">>
  /\ sorted_stocks = <<"AAPL", "MU", "TSM">>

\* ---------------------------------------------------- claims: AssetPurchaser
\* the rows the running (or last) construction has written to its file
NewRows == file[runs].rows

\* rows lie in the ledger, in their order
RECURSIVE InOrderIn(_, _)
InOrderIn(rows, content) ==
  IF rows = <<>> THEN TRUE
  ELSE IF content = <<>> THEN FALSE
  ELSE IF Head(rows) = Head(content) THEN InOrderIn(Tail(rows), Tail(content))
  ELSE InOrderIn(rows, Tail(content))

\* the quantity the claim gives the i-th asset
ArgQuantity(i) ==
  IF arg_asset_purchase_amounts # <<>>
  THEN <<arg_asset_purchase_amounts[1][i]>>
  ELSE arg_universal_purchase_amount

OneRowPerAsset ==
  /\ Len(NewRows) = Len(arg_assets)
  /\ \A i \in DOMAIN arg_assets :
       /\ NewRows[i].asset = arg_assets[i]
       /\ NewRows[i].quantity = ArgQuantity(i)

\* C5 as stated: every construction given a quantity source appends one row
\* per asset to the ledger, in input order, each with its asset and its
\* quantity.
C5_OneRecordPerAsset ==
  p_pc = "done" => (OneRowPerAsset /\ InOrderIn(NewRows, ledger))

\* C5 amended: a simulation-mode construction given a per-asset list with at
\* least as many amounts as there are assets, or no per-asset list and a
\* uniform amount, writes one row per asset to its file, in input order, each
\* with its asset and its quantity; the rows are all in the ledger, in that
\* order, once the file is closed.
C5_OneRecordPerAssetInSimulation ==
  (/\ p_pc = "done"
   /\ p_simulation_mode
   /\ \/ arg_asset_purchase_amounts = <<>>
      \/ Len(arg_asset_purchase_amounts[1]) >= Len(arg_assets))
    => /\ OneRowPerAsset
       /\ file[runs].status = "closed" => InOrderIn(NewRows, ledger)

\* a finished simulated construction for two long tickers with a uniform
\* amount, after one for MU and AAPL with the amounts 2, 3: its first row went
\* to the ledger when the second was written, the file of the earlier object
\* was closed after that, and then its own
C5_Witness ==
  /\ p_pc = "done"
  /\ p_simulation_mode
  /\ arg_assets = <<LongA, LongB>>
  /\ arg_asset_purchase_amounts = <<>>
  /\ arg_universal_purchase_amount = <<UniversalPurchaseAmount>>
  /\ runs = 2
  /\ file[1].status = "closed" /\ file[2].status = "closed"
  /\ Len(file[1].rows) = 2
  /\ file[1].rows[1].asset = MU /\ file[1].rows[1].quantity = <<2>>
  /\ file[1].rows[2].asset = AAPL /\ file[1].rows[2].quantity = <<3>>
  /\ Len(NewRows) = 2
  /\ NewRows[1].quantity = <<UniversalPurchaseAmount>>
  /\ NewRows[2].quantity = <<UniversalPurchaseAmount>>
  /\ ledger = <<NewRows[1]>> \o file[1].rows \o <<NewRows[2]>>

\* C6: constructed with neither quantity source, the purchaser logs an error
\* and returns: no file is opened, no price is looked up, nothing is written,
\* and the construction leaves the ledger as it was.
C6_NoQuantitySourceRejected ==
  /\ []((/\ p_pc \in {"loop", "done", "rejected"}
         /\ arg_asset_purchase_amounts = <<>>
         /\ arg_universal_purchase_amount = <<>>)
          => /\ p_pc = "rejected"
             /\ p_errors = 1
             /\ file[runs] = NoFile
             /\ lookups = <<>>)
  /\ [][(/\ runs' = runs + 1
         /\ arg_asset_purchase_amounts' = <<>>
         /\ arg_universal_purchase_amount' = <<>>)
          => ledger' = ledger]_vars

\* a rejected construction for two assets over a ledger that already has rows
C6_Witness ==
  /\ p_pc = "rejected"
  /\ arg_assets = <<AAPL, MU>>
  /\ arg_asset_purchase_amounts = <<>>
  /\ arg_universal_purchase_amount = <<>>
  /\ ledger # <<>>

\* the row of a failed lookup for the k-th asset
SentinelRow(k) ==
  [asset |-> p_assets[k], price |-> SentinelPrice,
   quantity |-> p_asset_purchase_amounts[k],
   expiration |-> expiration_date_str[1]]

\* C7 as stated: a failed price lookup does not end the run: when the
\* construction has returned, the asset's record is appended to the ledger
\* with the sentinel price and the asset's quantity, and every later asset of
\* the list was looked up and has its record appended.
C7_FailedLookupAppendedForEveryLaterAsset ==
  p_pc = "done" =>
    \A k \in DOMAIN lookups :
      lookups[k].hist = <<>> =>
        /\ Len(NewRows) >= k /\ NewRows[k] = SentinelRow(k)
        /\ \A j \in (k + 1)..Len(p_assets) :
             /\ Len(lookups) >= j /\ lookups[j].ticker = p_assets[j]
             /\ Len(NewRows) >= j /\ NewRows[j].asset = p_assets[j]
        /\ InOrderIn(NewRows, ledger)

\* C7 amended: in a simulation-mode run a failed price lookup does not end
\* the run: the asset's row is written to the file with the sentinel price
\* and the asset's quantity, and every later asset that zip pairs with an
\* amount is looked up and gets its row written; the rows are in the ledger,
\* in order, once the file is closed.
C7_FailedLookupRecordedAndRunGoesOn ==
  (p_pc \in {"loop", "done"} /\ p_simulation_mode) =>
    \A k \in DOMAIN lookups :
      lookups[k].hist = <<>> =>
        /\ lookups[k].ticker = p_assets[k]
        /\ Len(NewRows) >= k
        /\ NewRows[k] = SentinelRow(k)
        /\ p_pc = "done" =>
             /\ \A j \in (k + 1)..ZipLen(p_assets, p_asset_purchase_amounts) :
                  /\ Len(lookups) >= j /\ lookups[j].ticker = p_assets[j]
                  /\ Len(NewRows) >= j /\ NewRows[j].asset = p_assets[j]
             /\ file[runs].status = "closed" => InOrderIn(NewRows, ledger)

\* the first ticker's lookup failed, the second's succeeded, both rows were
\* written and are in the ledger, with the expiration of
\* valid_purchase_days = 4 on the day before the UTC date
C7_Witness ==
  /\ p_pc = "done"
  /\ p_assets = <<LongA, LongB>>
  /\ arg_universal_purchase_amount = <<UniversalPurchaseAmount>>
  /\ arg_asset_purchase_amounts = <<>>
  /\ p_valid_purchase_days = ValidPurchaseDays
  /\ lookups = <<[ticker |-> LongA, hist |-> <<>>], [ticker |-> LongB, hist |-> <<150>>]>>
  /\ file[runs].status = "closed"
  /\ ledger = <<[asset |-> LongA, price |-> SentinelPrice,
                 quantity |-> <<UniversalPurchaseAmount>>,
                 expiration |-> UtcNow - 1 + ValidPurchaseDays],
                [asset |-> LongB, price |-> 150,
                 quantity |-> <<UniversalPurchaseAmount>>,
                 expiration |-> UtcNow - 1 + ValidPurchaseDays]>>

\* the rows the first r files have passed to the ledger
RECURSIVE PassedRows(_)
PassedRows(r) ==
  IF r = 0 THEN <<>>
  ELSE PassedRows(r - 1) \o SubSeq(file[r].rows, 1, file[r].raw)

\* a step leaves the ledger alone, or appends to it the rows that one file
\* newly passes on
LedgerStep ==
  /\ IsPrefix(ledger, ledger')
  /\ \A r \in DOMAIN file : file[r].raw <= file'[r].raw
  /\ \/ /\ ledger' = ledger
        /\ \A r \in DOMAIN file : file'[r].raw = file[r].raw
     \/ \E r \in DOMAIN file :
          /\ ledger' = ledger \o SubSeq(file'[r].rows, file[r].raw + 1, file'[r].raw)
          /\ \A q \in DOMAIN file : q # r => file'[q].raw = file[q].raw

\* C8 as stated: no step removes or rewrites a row of the ledger, and when
\* an invocation has returned after an earlier one that wrote the same rows,
\* the ledger holds these rows twice.
C8_LedgerAppendOnlyAfterEachInvocation ==
  /\ [](p_pc = "done" =>
          \A r \in 1..(runs - 1) :
            (file[r].status # "none" /\ file[r].rows = NewRows) =>
              \A i \in DOMAIN NewRows :
                OccurrencesIn(ledger, NewRows[i]) >= 2 * OccurrencesIn(NewRows, NewRows[i]))
  /\ [][IsPrefix(ledger, ledger')]_vars

\* C8 amended: no step removes or rewrites a row of the ledger: a step leaves
\* it alone or appends to it the rows that a file passes on.  No row is
\* dropped as a duplicate: the ledger holds every row as often as the files
\* have passed it on, and a closed file has passed on all rows written to it,
\* so that the rows of two invocations with the same inputs are in the ledger
\* twice once both files are closed.
C8_LedgerAppendOnly ==
  /\ [](/\ Len(ledger) = Len(PassedRows(Len(file)))
        /\ \A i \in DOMAIN ledger :
             OccurrencesIn(ledger, ledger[i]) =
               OccurrencesIn(PassedRows(Len(file)), ledger[i])
        /\ \A r \in DOMAIN file :
             file[r].status = "closed" => file[r].raw = Len(file[r].rows))
  /\ [][LedgerStep]_vars

\* two constructions with the same inputs wrote the same rows, and the
\* ledger holds them twice
C8_Witness ==
  /\ p_pc = "done"
  /\ runs = 2
  /\ file[1].status = "closed" /\ file[2].status = "closed"
  /\ Len(file[1].rows) = 2
  /\ file[2].rows = file[1].rows
  /\ ledger = file[1].rows \o file[1].rows

====
